---- MODULE Spec2Model ----
(***************************************************************************)
(* Model of BioTupload.py: runs of main().  A run parses the command       *)
(* line (check_serial_number is the type of -sn), walks the chain          *)
(* define_apis -> signin -> get_organizations -> registration_id ->        *)
(* template_id -> add_device, each function calling the next as the last   *)
(* statement of its try block, and ends in manage_data_json.  The state is *)
(* the module's globals (EXECUTION_STATUS, data, the payloads), the        *)
(* requests issued so far with the outcome the remote side gave each, and  *)
(* the output file, which outlives the process when the tool is run again. *)
(***************************************************************************)
EXTENDS Integers, Sequences, FiniteSets, TLC

VARIABLES pc, data, EXECUTION_STATUS, assigned, calls, resp, file,
          path_to_print, run, ORGANIZATIONS_DIC,
          response_json_list_organizations, response_json_registration_code,
          data_registration_code, data_device

vars == <<pc, data, EXECUTION_STATUS, assigned, calls, resp, file,
          path_to_print, run, ORGANIZATIONS_DIC,
          response_json_list_organizations, response_json_registration_code,
          data_registration_code, data_device>>

\* The globals the upload chain passes from one function to the next.
upload_globals == <<ORGANIZATIONS_DIC, response_json_list_organizations,
                    response_json_registration_code, data_registration_code,
                    data_device>>

(***************************************************************************)
(* Bounds of the inputs.                                                   *)
(***************************************************************************)
MaxSerialLen == 11

\* The number of consecutive runs with the same command line.
MaxRuns == 2

(***************************************************************************)
(* Characters a serial number is built from.  "sup2" stands for U+00B2     *)
(* (superscript two): str.isdigit() accepts it, int() does not.            *)
(***************************************************************************)
Chars == {"0", "1", "9", "a", "sup2"}

DecimalValue == [c \in {"0", "1", "9"} |-> CASE c = "0" -> 0 [] c = "1" -> 1 [] c = "9" -> 9]

\* str.isdecimal-like class: the characters int() parses.
IsDecimalChar(c) == c \in DOMAIN DecimalValue

\* The characters for which str.isdigit() is true.
IsDigitChar(c) == c \in {"0", "1", "9", "sup2"}

\* str.isdigit(): non-empty and every character a digit.
isdigit(s) == Len(s) > 0 /\ \A i \in 1..Len(s) : IsDigitChar(s[i])

(***************************************************************************)
(* Python integers are unbounded: an integer is modelled by its decimal    *)
(* digits without leading zeros (zero is the empty sequence).              *)
(***************************************************************************)
RECURSIVE StripZeros(_)
StripZeros(d) == IF d = <<>> THEN <<>>
                 ELSE IF d[1] = 0 THEN StripZeros(Tail(d)) ELSE d

\* int(s) for a string s: the exception raised ("none" when it returns) and
\* the value.
int(s) == IF s # <<>> /\ \A i \in 1..Len(s) : IsDecimalChar(s[i])
          THEN [raised |-> "none",
                value |-> StripZeros([i \in 1..Len(s) |-> DecimalValue[s[i]]])]
          ELSE [raised |-> "ValueError", value |-> <<>>]

\* a < b on integers given by their digits.
IntLess(a, b) ==
    \/ Len(a) < Len(b)
    \/ /\ Len(a) = Len(b)
       /\ \E i \in 1..Len(a) : /\ a[i] < b[i]
                               /\ \A j \in 1..(i - 1) : a[j] = b[j]

SERIAL_NUMBER_LENGTH_ONASPORT == 10
MIN_SERIAL_NUMBER_ONASPORT == <<1, 0, 0, 0, 0, 0, 0, 0, 0, 0>>
MAX_SERIAL_NUMBER_ONASPORT == <<9, 9, 9, 9, 9, 9, 9, 9, 9, 9>>

(***************************************************************************)
(* check_serial_number(serial_number) with EXECUTION_STATUS = status on    *)
(* entry.  The condition is an `or` chain evaluated left to right, so      *)
(* int() runs only on a string of 10 isdigit() characters.  The result is  *)
(* the exception raised ("none" when it returns) and the status on exit.   *)
(***************************************************************************)
check_serial_number(serial_number, status) ==
    IF ~isdigit(serial_number) THEN [raised |-> "none", status |-> 5]
    ELSE IF Len(serial_number) # SERIAL_NUMBER_LENGTH_ONASPORT
         THEN [raised |-> "none", status |-> 5]
    ELSE IF int(serial_number).raised # "none"
         THEN [raised |-> int(serial_number).raised, status |-> status]
    ELSE IF IntLess(int(serial_number).value, MIN_SERIAL_NUMBER_ONASPORT)
         THEN [raised |-> "none", status |-> 5]
    ELSE IF IntLess(MAX_SERIAL_NUMBER_ONASPORT, int(serial_number).value)
         THEN [raised |-> "none", status |-> 5]
    ELSE [raised |-> "none", status |-> status]

(***************************************************************************)
(* The serial numbers tried: every length up to MaxSerialLen, any first    *)
(* character, any last character, one repeated character in between.       *)
(***************************************************************************)
SerialNumbers ==
    { [i \in 1..n |-> IF i = 1 THEN h ELSE IF i = n THEN l ELSE f] :
        <<n, h, f, l>> \in (0..MaxSerialLen) \X Chars \X Chars \X Chars }

\* -output: not given (None), an existing directory, a directory that is missing.
OutputDirectories == {"None", "exists", "missing"}

(***************************************************************************)
(* What the remote side answers to a request:                              *)
(*   ok        2xx with the body the caller expects                        *)
(*   http_err  non-2xx status (raise_for_status raises HTTPError)          *)
(*   net_err   no response (ConnectionError, Timeout)                      *)
(*   bad_json  2xx with a body that is not JSON                            *)
(*   no_key    2xx with a JSON body lacking the key the caller reads       *)
(***************************************************************************)
Outcomes == {"ok", "http_err", "net_err", "bad_json", "no_key"}

\* -org: the organization names tried, and the organization lists the remote
\* side may return (each entry the "_name" and "_id" of an organization).
OrganizationNames == {"orgA", "orgB"}

OrganizationLists ==
    { <<>>,
      <<[name |-> "orgA", id |-> "id1"]>>,
      <<[name |-> "orgB", id |-> "id2"]>>,
      <<[name |-> "orgA", id |-> "id1"], [name |-> "orgB", id |-> "id2"]>> }

OrganizationIds == {"id1", "id2"}

\* The identifiers the remote side may give a created registration code.
RegistrationCodeIds == {"rc1", "rc2"}

\* The requests in the order the chain issues them.
CallOrder == <<"login", "organizations", "registration_template",
               "device_template", "registration_code", "device">>

CallNames == {CallOrder[i] : i \in 1..Len(CallOrder)}

(***************************************************************************)
(* The call stack of the upload chain, outermost first, and each frame's   *)
(* except clause.                                                          *)
(***************************************************************************)
Frames == <<"main", "define_apis", "signin", "get_organizations",
            "registration_id", "template_id", "add_device">>

FrameIndex(f) == CHOOSE i \in 1..Len(Frames) : Frames[i] = f

\* Variant: the inner functions have no except clause of their own.
Catches_outer_only(f, exc) == f \in {"main", "define_apis"}

\* Variant: every function catches Exception.
Catches_all(f, exc) == TRUE

\* Variant: main and define_apis catch RequestException only, like the
\* functions they call.
Catches_request_only(f, exc) == exc = "RequestException"

\* `except Exception` in main and define_apis,
\* `except requests.exceptions.RequestException` in the others.
Catches(f, exc) == IF f \in {"main", "define_apis"} THEN TRUE
                   ELSE exc = "RequestException"

\* The status each frame's except clause assigns.
HandlerStatus(f) == CASE f = "main" -> 16
                      [] f = "define_apis" -> 10
                      [] f = "signin" -> 11
                      [] f = "get_organizations" -> 12
                      [] f = "registration_id" -> 13
                      [] f = "template_id" -> 14
                      [] f = "add_device" -> 15

\* Whether some frame, from f outwards, catches exc; when none does it
\* leaves main and ends the process.
Caught(f, exc) == \E i \in 1..FrameIndex(f) : Catches(Frames[i], exc)

\* The innermost frame, from f outwards, whose except clause catches exc.
CatchingFrame(f, exc) ==
    LET cands == {i \in 1..FrameIndex(f) : Catches(Frames[i], exc)}
    IN  Frames[CHOOSE i \in cands : \A j \in cands : j <= i]

\* The status assigned when exc is raised in the body of frame f.
Raise(f, exc) == HandlerStatus(CatchingFrame(f, exc))

\* Variant: get_api_call without raise_for_status and without the try: the
\* response is returned whatever happened.
get_api_call_no_raise(r) == [ret |-> "response", writes |-> <<>>]

(***************************************************************************)
(* get_api_call / post_api_call against a request whose outcome is r: the  *)
(* whole body is under `except Exception`, so an HTTP or network error     *)
(* assigns the status and returns None; anything else returns the          *)
(* response, whatever its body.                                            *)
(***************************************************************************)
get_api_call(r) == IF r \in {"http_err", "net_err"}
                   THEN [ret |-> "None", writes |-> <<8>>]
                   ELSE [ret |-> "response", writes |-> <<>>]

\* Variant: post_api_call returns None on an error without recording it.
post_api_call_no_status(r) == IF r \in {"http_err", "net_err"}
                              THEN [ret |-> "None", writes |-> <<>>]
                              ELSE [ret |-> "response", writes |-> <<>>]

post_api_call(r) == IF r \in {"http_err", "net_err"}
                    THEN [ret |-> "None", writes |-> <<9>>]
                    ELSE [ret |-> "response", writes |-> <<>>]

\* Variant: the parsed body is read with .get(), a missing key gives None.
ReadBody_no_key_check(ret, r, reads_key) ==
    IF ret = "None" THEN "AttributeError"
    ELSE IF r = "bad_json" THEN "ValueError"
    ELSE "none"

\* json.loads(response.content.decode("utf-8")) on what the call returned,
\* then the subscripts the caller applies to the parsed body.
ReadBody(ret, r, reads_key) ==
    IF ret = "None" THEN "AttributeError"
    ELSE IF r = "bad_json" THEN "ValueError"
    ELSE IF reads_key /\ r = "no_key" THEN "KeyError"
    ELSE "none"

\* The exception signin's own statements raise on a login outcome r:
\* requests.post / raise_for_status, response.json() (whose
\* requests.exceptions.JSONDecodeError is a RequestException since requests
\* 2.27), the token
\* subscripts.
SigninException(r) ==
    CASE r \in {"http_err", "net_err"} -> "RequestException"
      [] r = "bad_json" -> "RequestException"
      [] r = "no_key" -> "KeyError"
      [] OTHER -> "none"

TypeOK ==
    /\ pc \in {"start", "main", "signin", "get_organizations", "registration_id",
               "template_id", "add_device", "add_device_post_device",
               "manage_data_json", "done", "exit", "crashed"}
    /\ data \in [SerialNumber : SerialNumbers, OutputDirectory : OutputDirectories,
                Organization : OrganizationNames, RegistrationCode : {"code"}]
    /\ EXECUTION_STATUS \in 0..16
    /\ assigned \in Seq(0..16)
    /\ calls \in Seq(CallNames)
    /\ resp \in [CallNames -> Outcomes \cup {"none"}]
    /\ file \in Seq([serialNumber : SerialNumbers, outputExecutionResult : 0..16])
    /\ path_to_print \in {"unset", "None", "path"}
    /\ run \in 1..MaxRuns
    /\ DOMAIN ORGANIZATIONS_DIC \subseteq OrganizationNames
    /\ \A n \in DOMAIN ORGANIZATIONS_DIC : ORGANIZATIONS_DIC[n] \in OrganizationIds
    /\ response_json_list_organizations \in OrganizationLists
    /\ response_json_registration_code \in RegistrationCodeIds \cup {"none"}
    /\ Len(data_registration_code) <= 1
    /\ Len(data_device) <= 1

(***************************************************************************)
(* The state when the interpreter has loaded the module: the command line  *)
(* is given, EXECUTION_STATUS = 0, nothing requested, nothing written.     *)
(***************************************************************************)
Init ==
    /\ pc = "start"
    /\ data \in [SerialNumber : SerialNumbers, OutputDirectory : OutputDirectories,
                Organization : OrganizationNames, RegistrationCode : {"code"}]
    /\ EXECUTION_STATUS = 0
    /\ assigned = <<>>
    /\ calls = <<>>
    /\ resp = [c \in CallNames |-> "none"]
    /\ file = <<>>
    /\ path_to_print = "unset"
    /\ run = 1
    /\ ORGANIZATIONS_DIC = <<>>
    /\ response_json_list_organizations = <<>>
    /\ response_json_registration_code = "none"
    /\ data_registration_code = <<>>
    /\ data_device = <<>>

\* EXECUTION_STATUS after the assignments in writes, in order.
Assign(writes) ==
    /\ EXECUTION_STATUS' = IF writes = <<>> THEN EXECUTION_STATUS
                           ELSE writes[Len(writes)]
    /\ assigned' = assigned \o writes

\* A request is issued and the remote side answers r.
Issue(c, r) ==
    /\ calls' = Append(calls, c)
    /\ resp' = [resp EXCEPT ![c] = r]

(***************************************************************************)
(* parse_arguments + parsed_object_to_dict (main, first statement).        *)
(* argparse applies check_serial_number to the -sn value.  A ValueError    *)
(* raised by a type function makes argparse report the argument as invalid *)
(* and exit the process (SystemExit is no Exception: neither               *)
(* parse_arguments nor main catches it).                                   *)
(***************************************************************************)
ParseArguments ==
    /\ pc = "start"
    /\ LET c == check_serial_number(data.SerialNumber, EXECUTION_STATUS)
       IN  IF c.raised # "none"
           THEN /\ pc' = "exit"
                /\ UNCHANGED <<EXECUTION_STATUS, assigned>>
           ELSE /\ pc' = "main"
                /\ Assign(IF c.status # EXECUTION_STATUS THEN <<c.status>> ELSE <<>>)
    /\ UNCHANGED <<data, calls, resp, file, path_to_print, run, upload_globals>>

\* main: `if EXECUTION_STATUS == 0: define_apis(...)`; define_apis builds the
\* URLs and calls signin.
DefineApis ==
    /\ pc = "main"
    /\ EXECUTION_STATUS = 0
    /\ pc' = "signin"
    /\ UNCHANGED <<data, EXECUTION_STATUS, assigned, calls, resp, file,
                   path_to_print, run, upload_globals>>

\* main: the upload is skipped when the status is not 0.
SkipUpload ==
    /\ pc = "main"
    /\ EXECUTION_STATUS # 0
    /\ pc' = "manage_data_json"
    /\ UNCHANGED <<data, EXECUTION_STATUS, assigned, calls, resp, file,
                   path_to_print, run, upload_globals>>

\* The function (frame of the chain) that issues each request.
FrameOf(c) == CASE c = "login" -> "signin"
                [] c = "organizations" -> "get_organizations"
                [] c = "registration_template" -> "registration_id"
                [] c = "device_template" -> "template_id"
                [] c = "registration_code" -> "add_device"
                [] c = "device" -> "add_device"

\* get_organizations: the list is fetched and parsed; its 'data' key is not
\* read here (template_id reads it).
GetOrganizationsException(r) == ReadBody(get_api_call(r).ret, r, FALSE)

\* registration_id: the template list is parsed and ['data'][0]['id'] read.
RegistrationIdException(r) == ReadBody(get_api_call(r).ret, r, TRUE)

\* template_id: the device template is parsed, ['template']['id'] read, then
\* the loop over the organization list's ['data'] fills ORGANIZATIONS_DIC.
TemplateIdException(r, organizations) ==
    IF ReadBody(get_api_call(r).ret, r, TRUE) # "none"
    THEN ReadBody(get_api_call(r).ret, r, TRUE)
    ELSE IF organizations = "no_key" THEN "KeyError"
    ELSE "none"

\* add_device, Step A: the registration code is posted, the response parsed
\* and ['_id'] read.
AddDeviceException(r) == ReadBody(post_api_call(r).ret, r, TRUE)

\* The exception raised in FrameOf(c) once request c was answered r ("none"
\* when the function goes on).  Step B's response is never read.
StepException(c, r, organizations) ==
    CASE c = "login" -> SigninException(r)
      [] c = "organizations" -> GetOrganizationsException(r)
      [] c = "registration_template" -> RegistrationIdException(r)
      [] c = "device_template" -> TemplateIdException(r, organizations)
      [] c = "registration_code" -> AddDeviceException(r)
      [] c = "device" -> "none"

\* The assignments get_api_call / post_api_call make for request c (signin
\* calls requests.post directly).
ApiWrites(c, r) ==
    CASE c = "login" -> <<>>
      [] c \in {"organizations", "registration_template", "device_template"}
           -> get_api_call(r).writes
      [] c \in {"registration_code", "device"} -> post_api_call(r).writes

\* All assignments to EXECUTION_STATUS caused by request c answered r: the
\* api helper's, then that of the except clause catching what is raised.
StepWrites(c, r, organizations) ==
    LET exc == StepException(c, r, organizations)
    IN  ApiWrites(c, r) \o
        (IF exc = "none" \/ ~Caught(FrameOf(c), exc) THEN <<>>
         ELSE <<Raise(FrameOf(c), exc)>>)

(***************************************************************************)
(* Request c is issued and answered.  When the function goes on, control   *)
(* moves to next_pc.  When an exception is raised, the except clause that  *)
(* catches it assigns its status and returns None, and every caller up to  *)
(* main has nothing left to do after the call: control is back in main at  *)
(* the call of manage_data_json (main's own except clause calls it too).   *)
(* An exception no frame catches ends the process.                         *)
(***************************************************************************)
Request(c, next_pc) ==
    \E r \in Outcomes :
        /\ Issue(c, r)
        /\ Assign(StepWrites(c, r, resp["organizations"]))
        /\ pc' = IF StepException(c, r, resp["organizations"]) = "none"
                 THEN next_pc
                 ELSE IF Caught(FrameOf(c), StepException(c, r, resp["organizations"]))
                 THEN "manage_data_json"
                 ELSE "crashed"

\* Variant: an unknown name falls back to an organization of the directory.
OwnerId_fallback(dic, name) ==
    IF name \in DOMAIN dic THEN dic[name]
    ELSE IF DOMAIN dic # {} THEN dic[CHOOSE n \in DOMAIN dic : TRUE]
    ELSE "null"

\* dict.get(name): the value, None ("null" once serialized) when absent.
OwnerId(dic, name) == IF name \in DOMAIN dic THEN dic[name] ELSE "null"

\* template_id's loop: ORGANIZATIONS_DIC[organization["_name"]] =
\* organization["_id"] for each entry of the list, in order.
RECURSIVE FillOrganizations(_, _)
FillOrganizations(dic, list) ==
    IF list = <<>> THEN dic
    ELSE FillOrganizations(
             [n \in DOMAIN dic \cup {list[1].name} |->
                 IF n = list[1].name THEN list[1].id ELSE dic[n]],
             Tail(list))

\* add_device line 404: the registration-code payload (the template id, a
\* value copied from the template response, is left out).
RegistrationCodePayload(d, dic) ==
    [ownerOrganization |-> OwnerId(dic, d.Organization),
     code |-> d.RegistrationCode]

\* add_device line 407: the identifier read from Step A's response.
registration_code_id == response_json_registration_code

\* Variant: the device is linked to the registration code string of the
\* command line instead of the identifier Step A returned.
DevicePayload_code_string(d, dic, rc_id) ==
    [ownerOrganization |-> OwnerId(dic, d.Organization),
     registrationCode |-> d.RegistrationCode,
     id |-> d.SerialNumber]

\* add_device line 409: the device payload (description, version and
\* template id, copied from the command line and the template response,
\* are left out).
DevicePayload(d, dic, rc_id) ==
    [ownerOrganization |-> OwnerId(dic, d.Organization),
     registrationCode |-> rc_id,
     id |-> d.SerialNumber]

\* signin: the login request, the token, then get_organizations().
Signin ==
    /\ pc = "signin"
    /\ Request("login", "get_organizations")
    /\ UNCHANGED <<data, file, path_to_print, run, upload_globals>>

\* get_organizations, then registration_id().
GetOrganizations ==
    /\ pc = "get_organizations"
    /\ Request("organizations", "registration_id")
    /\ response_json_list_organizations' \in
           IF resp'["organizations"] = "ok" THEN OrganizationLists ELSE {<<>>}
    /\ UNCHANGED <<data, file, path_to_print, run, ORGANIZATIONS_DIC,
                   response_json_registration_code, data_registration_code,
                   data_device>>

\* registration_id, then template_id().
RegistrationId ==
    /\ pc = "registration_id"
    /\ Request("registration_template", "template_id")
    /\ UNCHANGED <<data, file, path_to_print, run, upload_globals>>

\* template_id, then add_device(data).
TemplateId ==
    /\ pc = "template_id"
    /\ Request("device_template", "add_device")
    /\ ORGANIZATIONS_DIC' =
           IF pc' = "add_device"
           THEN FillOrganizations(ORGANIZATIONS_DIC, response_json_list_organizations)
           ELSE ORGANIZATIONS_DIC
    /\ UNCHANGED <<data, file, path_to_print, run,
                   response_json_list_organizations,
                   response_json_registration_code, data_registration_code,
                   data_device>>

\* add_device, Step A, then time.sleep(1) and Step B.
AddDeviceRegistrationCode ==
    /\ pc = "add_device"
    /\ data_registration_code' = <<RegistrationCodePayload(data, ORGANIZATIONS_DIC)>>
    /\ Request("registration_code", "add_device_post_device")
    /\ response_json_registration_code' \in
           IF resp'["registration_code"] = "ok" THEN RegistrationCodeIds
           ELSE {"none"}
    /\ UNCHANGED <<data, file, path_to_print, run, ORGANIZATIONS_DIC,
                   response_json_list_organizations, data_device>>

\* add_device, Step B: the device is posted; add_device returns.
AddDevicePostDevice ==
    /\ pc = "add_device_post_device"
    /\ data_device' = <<DevicePayload(data, ORGANIZATIONS_DIC, registration_code_id)>>
    /\ Request("device", "manage_data_json")
    /\ UNCHANGED <<data, file, path_to_print, run, ORGANIZATIONS_DIC,
                   response_json_list_organizations,
                   response_json_registration_code, data_registration_code>>

\* Variant: the content is built from a key the dictionary does not have
\* (data.get gives None, written here as the empty string).
generate_json_wrong_key(d, status) ==
    IF d.OutputDirectory = "exists"
    THEN [file |-> <<[serialNumber |-> <<>>, outputExecutionResult |-> status]>>,
          writes |-> <<>>]
    ELSE [file |-> file, writes |-> <<4>>]

\* Variant: the file is opened in append mode, as log_to_json opens it.
generate_json_append(d, status) ==
    IF d.OutputDirectory = "exists"
    THEN [file |-> Append(file, [serialNumber |-> d.SerialNumber,
                                 outputExecutionResult |-> status]),
          writes |-> <<>>]
    ELSE [file |-> file, writes |-> <<4>>]

(***************************************************************************)
(* manage_data_json(data, output_directory): os.path.join raises TypeError *)
(* on None (status 3, returns None); otherwise generate_json builds the    *)
(* content from the status as it is now and opens the path for writing,    *)
(* which fails when the directory is missing (status 4); the path is       *)
(* returned either way.                                                    *)
(***************************************************************************)
generate_json(d, status) ==
    IF d.OutputDirectory = "exists"
    THEN [file |-> <<[serialNumber |-> d.SerialNumber,
                      outputExecutionResult |-> status]>>,
          writes |-> <<>>]
    ELSE [file |-> file, writes |-> <<4>>]

\* Variant: manage_data_json returns the path only when the file was written.
ManageDataJson_path_if_written ==
    /\ pc = "manage_data_json"
    /\ IF data.OutputDirectory = "None"
       THEN /\ Assign(<<3>>)
            /\ path_to_print' = "None"
            /\ UNCHANGED file
       ELSE LET g == generate_json(data, EXECUTION_STATUS)
            IN  /\ file' = g.file
                /\ Assign(g.writes)
                /\ path_to_print' = IF g.writes = <<>> THEN "path" ELSE "None"
    /\ pc' = "done"
    /\ UNCHANGED <<data, calls, resp, run, upload_globals>>

ManageDataJson ==
    /\ pc = "manage_data_json"
    /\ IF data.OutputDirectory = "None"
       THEN /\ Assign(<<3>>)
            /\ path_to_print' = "None"
            /\ UNCHANGED file
       ELSE LET g == generate_json(data, EXECUTION_STATUS)
            IN  /\ file' = g.file
                /\ Assign(g.writes)
                /\ path_to_print' = "path"
    /\ pc' = "done"
    /\ UNCHANGED <<data, calls, resp, run, upload_globals>>

(***************************************************************************)
(* The tool is started again with the same command line on the same day:   *)
(* a new process, so every global is back at its initial value; the file   *)
(* system keeps the file.                                                  *)
(***************************************************************************)
Rerun ==
    /\ pc \in {"done", "exit"}
    /\ run < MaxRuns
    /\ run' = run + 1
    /\ pc' = "start"
    /\ EXECUTION_STATUS' = 0
    /\ assigned' = <<>>
    /\ calls' = <<>>
    /\ resp' = [c \in CallNames |-> "none"]
    /\ path_to_print' = "unset"
    /\ ORGANIZATIONS_DIC' = <<>>
    /\ response_json_list_organizations' = <<>>
    /\ response_json_registration_code' = "none"
    /\ data_registration_code' = <<>>
    /\ data_device' = <<>>
    /\ UNCHANGED <<data, file>>

Next ==
    \/ ParseArguments
    \/ DefineApis
    \/ SkipUpload
    \/ Signin
    \/ GetOrganizations
    \/ RegistrationId
    \/ TemplateId
    \/ AddDeviceRegistrationCode
    \/ AddDevicePostDevice
    \/ ManageDataJson
    \/ Rerun

Spec == Init /\ [][Next]_vars

\* The interpreter runs a started process to its end: a step that can be
\* taken is taken.
FairSpec == Spec /\ WF_vars(Next)

(***************************************************************************)
(* Vocabulary of the properties.                                           *)
(***************************************************************************)
Failures == {"http_err", "net_err", "bad_json", "no_key"}

Issued(c) == resp[c] # "none"

\* The one JSON object a run with status st writes.
Record(st) == [serialNumber |-> data.SerialNumber, outputExecutionResult |-> st]

\* The file holds what a run ending with status st writes; it is there when
\* the output directory is given and exists.
FileRecords(st) ==
    /\ file \in {<<>>, <<Record(st)>>}
    /\ data.OutputDirectory = "exists" => file # <<>>

\* A serial number as the specification defines a valid one: exactly 10
\* decimal digits, the value within [1000000000, 9999999999].
WellFormedSerial(s) ==
    /\ Len(s) = 10
    /\ \A i \in 1..Len(s) : s[i] \in {"0", "1", "9"}
    /\ s[1] # "0"

\* C1: when the login, the three reference queries and both creations
\* succeed, the file main has written holds outputExecutionResult 0 and the
\* serial number of the command line.
C1_FullSuccessRecord ==
    (pc = "done" /\ \A c \in CallNames : resp[c] = "ok") => FileRecords(0)

C1_Witness ==
    /\ pc = "done"
    /\ \A c \in CallNames : resp[c] = "ok"
    /\ file = <<Record(0)>>

\* C2: after a non-2xx login response no other request is issued, and the
\* file written at the end holds the serial number and status 11.
C2_LoginRejected ==
    resp["login"] = "http_err" =>
        /\ calls = <<"login">>
        /\ pc \in {"manage_data_json", "done"}
        /\ pc = "manage_data_json" => EXECUTION_STATUS = 11
        /\ pc = "done" => FileRecords(11)

C2_Witness ==
    /\ pc = "done"
    /\ resp["login"] = "http_err"
    /\ file = <<Record(11)>>

\* C3 (as claimed): whenever main has returned, a file holding
\* {serialNumber, outputExecutionResult} has been written, also without
\* -output.
C3_FileAlwaysWritten ==
    pc = "done" =>
        /\ Len(file) = 1
        /\ file[1].serialNumber = data.SerialNumber

\* C4: the device request (Step B) is never issued in a run whose
\* registration-code request (Step A) failed.
C4_NoStepBAfterFailedStepA ==
    /\ resp["registration_code"] \in Failures => ~Issued("device")
    /\ Issued("device") => resp["registration_code"] = "ok"

C4_Witness ==
    /\ pc = "done"
    /\ resp["registration_code"] = "no_key"
    /\ ~Issued("device")

\* C5: when the login succeeds and the organization-list call fails, neither
\* creation request is issued and the run goes on to the traceability step
\* with a non-zero status.
C5_OrganizationFailure ==
    (resp["login"] = "ok" /\ resp["organizations"] \in Failures) =>
        /\ ~Issued("registration_code")
        /\ ~Issued("device")
        /\ pc # "exit"
        /\ pc \in {"manage_data_json", "done"} => EXECUTION_STATUS # 0
        /\ resp["organizations"] \in {"http_err", "net_err"}
               => pc \in {"manage_data_json", "done"}

C5_Witness ==
    /\ pc = "done"
    /\ resp["login"] = "ok"
    /\ resp["organizations"] = "http_err"
    /\ calls = <<"login", "organizations">>
    /\ EXECUTION_STATUS # 0

\* The status a run is left with when request c is the one that fails (with
\* an HTTP error), every request before it having succeeded.
StatusAfterFailure(c) == LET w == StepWrites(c, "http_err", "ok")
                         IN  w[Len(w)]

\* C6 (as claimed): the status a run ends with after the failure of one
\* request differs from the status the failure of any other request leaves,
\* and is not 0.
C6_DistinctFailureCodes ==
    \A c \in CallNames :
        (/\ pc = "manage_data_json"
         /\ calls # <<>> /\ calls[Len(calls)] = c
         /\ resp[c] = "http_err")
        => /\ EXECUTION_STATUS # 0
           /\ \A d \in CallNames \ {c} : StatusAfterFailure(d) # EXECUTION_STATUS

\* C7 (as claimed): every failed login, whatever the kind of failure, leaves
\* status 11 and no further request.
C7_LoginFailureIs11 ==
    (resp["login"] \in Failures /\ pc = "manage_data_json") =>
        /\ EXECUTION_STATUS = 11
        /\ calls = <<"login">>

\* C8 (as claimed): once a reference query has failed, in any of the three
\* ways, no request later in the call order is issued.
C8_NoCallAfterFailedQuery ==
    \A i \in 2..4 :
        resp[CallOrder[i]] \in Failures =>
            \A j \in (i + 1)..Len(CallOrder) : ~Issued(CallOrder[j])

\* C9 (as claimed): a run whose serial number is not valid is not aborted
\* by the parser, issues no request, and its file holds the serial number
\* with status 5.
C9_InvalidSerialRecorded ==
    (~WellFormedSerial(data.SerialNumber) /\ pc # "start") =>
        /\ pc # "exit"
        /\ calls = <<>>
        /\ pc = "manage_data_json" => EXECUTION_STATUS = 5
        /\ pc = "done" => FileRecords(5)

\* C10 (as claimed): check_serial_number leaves status 0 on a valid serial
\* number; on any other string it sets a non-zero status and returns
\* without raising.
C10_CheckSerialNumber ==
    pc \in {"main", "exit"} =>
        /\ pc = "main"
        /\ WellFormedSerial(data.SerialNumber) <=> EXECUTION_STATUS = 0

\* C11: after any number of consecutive runs with the same serial number,
\* date and output directory the file holds exactly one JSON object, the one
\* the most recent run wrote: a run overwrites, it never appends.
C11_OverwriteNotAppend ==
    /\ Len(file) <= 1
    /\ (pc = "done" /\ data.OutputDirectory = "exists")
           => file = <<Record(EXECUTION_STATUS)>>

C11_Witness ==
    /\ run = 2
    /\ pc = "done"
    /\ data.OutputDirectory = "exists"
    /\ file = <<Record(0)>>

\* C12 (as claimed): when the output directory does not exist the writer
\* creates it and writes the file.
C12_MissingDirectoryCreated ==
    (pc = "done" /\ data.OutputDirectory = "missing") =>
        /\ Len(file) = 1
        /\ file[1].serialNumber = data.SerialNumber

\* C13: every run whose arguments parse ends with main returning a value (a
\* path or None), whatever the requests and the file write did; no
\* exception leaves main.
C13_MainReturns ==
    /\ [](pc # "crashed")
    /\ (pc = "main") ~> (pc = "done" /\ path_to_print \in {"None", "path"})

C13_Witness ==
    /\ pc = "done"
    /\ resp["registration_code"] = "no_key"
    /\ data.OutputDirectory = "missing"
    /\ path_to_print = "path"

\* The configured organization is none of the organizations fetched.
UnknownOrganization ==
    /\ resp["organizations"] = "ok"
    /\ \A i \in 1..Len(response_json_list_organizations) :
           response_json_list_organizations[i].name # data.Organization

\* C14: when the configured organization is not in the fetched list the
\* registration-code request is still issued, with a null owner id (nothing
\* is raised locally, no other organization's id is used); when the remote
\* side rejects it the run ends with a non-zero status.
C14_UnknownOrganizationIsNull ==
    UnknownOrganization =>
        /\ resp["device_template"] = "ok"
               => (pc = "add_device" \/ Issued("registration_code"))
        /\ Issued("registration_code")
               => data_registration_code =
                      <<[ownerOrganization |-> "null", code |-> data.RegistrationCode]>>
        /\ (resp["registration_code"] \in {"http_err", "net_err"})
               => /\ pc \in {"manage_data_json", "done"}
                  /\ EXECUTION_STATUS # 0
                  /\ \A i \in 1..Len(file) :
                         pc = "done" => file[i].outputExecutionResult # 0

C14_Witness ==
    /\ UnknownOrganization
    /\ response_json_list_organizations # <<>>
    /\ pc = "done"
    /\ resp["registration_code"] = "http_err"
    /\ data_registration_code[1].ownerOrganization = "null"
    /\ EXECUTION_STATUS = 10

\* C15: the requests issued form a prefix of the fixed sequence login,
\* organization list, registration-code template, device template,
\* registration code, device: each at most once, in this order, and none
\* after a request that failed at the HTTP or network level.
C15_CallsPrefixOfOrder ==
    /\ Len(calls) <= Len(CallOrder)
    /\ calls = SubSeq(CallOrder, 1, Len(calls))
    /\ \A i \in 1..Len(calls) :
           resp[calls[i]] \in {"http_err", "net_err"} => i = Len(calls)
    /\ \A c \in CallNames : Issued(c) <=> \E i \in 1..Len(calls) : calls[i] = c

C15_Witness ==
    /\ pc = "done"
    /\ calls = <<"login", "organizations", "registration_template">>
    /\ resp["registration_template"] = "net_err"

\* C16 (as claimed): a failure of the upload chain is caught in the function
\* in which it is raised and gets that function's own status code: nothing
\* raised in get_organizations, registration_id, template_id or add_device
\* passes up to a caller.
C16_CaughtWhereRaised ==
    (pc = "manage_data_json" /\ calls # <<>>) =>
        LET c == calls[Len(calls)]
            exc == StepException(c, resp[c], resp["organizations"])
        IN  (exc # "none" /\ FrameOf(c) # "signin") =>
                /\ CatchingFrame(FrameOf(c), exc) = FrameOf(c)
                /\ EXECUTION_STATUS = HandlerStatus(FrameOf(c))

\* C17: when the registration code was created and the device request then
\* fails, the run issues no further request (nothing deletes the
\* registration code) and ends with a non-zero status.
C17_NoRollback ==
    (resp["registration_code"] = "ok" /\ resp["device"] \in {"http_err", "net_err"}) =>
        /\ calls = CallOrder
        /\ pc \in {"manage_data_json", "done"}
        /\ EXECUTION_STATUS # 0
        /\ pc = "done" => \A i \in 1..Len(file) : file[i].outputExecutionResult # 0

C17_Witness ==
    /\ pc = "done"
    /\ resp["registration_code"] = "ok"
    /\ resp["device"] = "http_err"
    /\ calls = CallOrder
    /\ file = <<Record(9)>>

\* C18: whenever the device request is issued, its registrationCode id is
\* the identifier this run's registration-code response returned, its owner
\* id the one sent in the registration-code request, its id the serial
\* number of the command line.
C18_DevicePayloadChained ==
    Issued("device") =>
        /\ response_json_registration_code \in RegistrationCodeIds
        /\ Len(data_registration_code) = 1
        /\ data_device =
               <<[ownerOrganization |-> data_registration_code[1].ownerOrganization,
                  registrationCode |-> response_json_registration_code,
                  id |-> data.SerialNumber]>>

C18_Witness ==
    /\ Issued("device")
    /\ data_device = <<[ownerOrganization |-> "id1", registrationCode |-> "rc2",
                        id |-> data.SerialNumber]>>

\* C19: the file a run wrote records 0 exactly when the serial number passed
\* validation and the device request was issued and answered with an HTTP
\* success (every earlier request having succeeded); a run in which a
\* request failed never records 0.
C19_ZeroIffDeviceCreated ==
    (pc = "done" /\ data.OutputDirectory = "exists") =>
        /\ Len(file) = 1
        /\ file[1].outputExecutionResult = 0
               <=> (Issued("device") /\ resp["device"] \notin {"http_err", "net_err"})
        /\ Issued("device")
               => /\ check_serial_number(data.SerialNumber, 0) =
                         [raised |-> "none", status |-> 0]
                  /\ \A i \in 1..5 : resp[CallOrder[i]] = "ok"
        /\ (\/ \E c \in CallNames : resp[c] \in {"http_err", "net_err"}
            \/ \E i \in 1..5 : resp[CallOrder[i]] \in Failures)
               => file[1].outputExecutionResult # 0

C19_Witness ==
    /\ pc = "done"
    /\ resp["device"] = "bad_json"
    /\ file = <<Record(0)>>

\* C20: a file only ever records 0, 5, 9, 10 or 11: the GET-failure code 8 is
\* overwritten by 10 before the file is written, 12, 13, 14 and 15 are never
\* assigned, and the file-writing codes 3 and 4 are never recorded.
C20_RecordedCodes ==
    /\ \A i \in 1..Len(file) : file[i].outputExecutionResult \in {0, 5, 9, 10, 11}
    /\ \A i \in 1..Len(assigned) :
           /\ assigned[i] \notin {12, 13, 14, 15}
           /\ assigned[i] = 8 => (i < Len(assigned) /\ assigned[i + 1] = 10)
    /\ EXECUTION_STATUS \in {3, 4} => pc = "done"

C20_Witness ==
    /\ pc = "done"
    /\ assigned = <<8, 10>>
    /\ file = <<Record(10)>>

\* C21: the value main returns is non-null exactly when an output directory
\* was supplied, whether or not the file was written: when the write in
\* generate_json fails the status becomes 4 in memory, main still returns
\* the intended path, and no file records the 4.
C21_ReturnsPathIffDirectoryGiven ==
    /\ pc = "done" =>
        /\ path_to_print = "path" <=> data.OutputDirectory # "None"
        /\ path_to_print = "None" <=> data.OutputDirectory = "None"
        /\ data.OutputDirectory = "missing" => EXECUTION_STATUS = 4
    /\ \A i \in 1..Len(file) : file[i].outputExecutionResult # 4

C21_Witness ==
    /\ pc = "done"
    /\ data.OutputDirectory = "missing"
    /\ EXECUTION_STATUS = 4
    /\ path_to_print = "path"
    /\ file = <<>>

====
